---- MODULE Spec2Model ----
(***************************************************************************)
(* Model of gi/pygi-async.c: the gi._gi.Async future.                      *)
(*                                                                         *)
(* One PyGIAsync object is modelled.  Its fields are the variables result, *)
(* exception, callbacks and blocking; the event loop it schedules on is    *)
(* the pair queue / invoked; soonLog is the history of every call made to  *)
(* loop.call_soon.  The completion handler pygi_async_finish_cb runs with  *)
(* the GIL held from PyGILState_Ensure to PyGILState_Release, and every    *)
(* method of the object runs with the GIL held, so each of them is one     *)
(* atomic action.                                                          *)
(***************************************************************************)
EXTENDS Integers, Sequences, FiniteSets, TLC

VARIABLES
    result,        \* self->result: NULL or the object the finish function returned
    exception,     \* self->exception: NoExc or an exception instance
    callbacks,     \* self->callbacks: the GArray of PyGIAsyncCallback (NULL = empty)
    blocking,      \* self->_asyncio_future_blocking
    soonLog,       \* every call the object made to loop.call_soon, in order
    queue,         \* the loop's ready queue: handles call_soon accepted
    invoked,       \* registrations whose callback has been run
    released,      \* per registration number, the number of Py_DECREF (cb->func)
    nextId,        \* next registration number
    finishCalls,   \* invocations of pygi_async_finish_cb
    finisherCalls, \* invocations of the finish function
    completions,   \* invocations of pygi_async_finish_cb that reached their end
    handlerRefs,   \* references to self owned on behalf of the handler
    initialized,   \* Py_IsInitialized ()
    errPending,    \* the error indicator when the handler returned
    reported,      \* number of PyErr_PrintEx calls
    aborted,       \* the process died inside the handler
    initFailed,    \* async_init returned -1 when the object was made
    gilSteps,      \* the steps of the handler's last invocation, in order
    lastCall       \* what the last operation returned or raised

vars == <<result, exception, callbacks, blocking, soonLog, queue,
          invoked, released, nextId, finishCalls, finisherCalls, completions,
          handlerRefs, initialized, errPending, reported, aborted, initFailed,
          gilSteps, lastCall>>

----
\* Bounds of the model.

\* Number of add_done_callback calls explored.
MaxRegs == 2

\* Number of add_done_callback calls explored when only the registry
\* operations and the handler run (SpecRegistry).
MaxWide == 3

\* Number of times the completion source invokes the handler (the contract
\* says once; twice models a defective completion source).
MaxFinish == 2

----
\* Objects.

NULL == "NULL"

\* The NULL exception pointer, as a record so that it compares with instances.
NoExc == [cls |-> NULL, arg |-> NULL, oid |-> NULL]

\* Callables handed to add_done_callback / remove_done_callback.  g and g2
\* are two distinct objects that compare equal (two bound-method objects of
\* the same method), f equals only itself.
Funcs == {"f", "g", "g2"}

EqKey(fn) == IF fn = "g2" THEN "g" ELSE fn

\* PyObject_RichCompareBool (a, b, Py_EQ) == 1: identity, then __eq__.
PyObject_RichCompareBool(a, b) == a = b \/ EqKey(a) = EqKey(b)

\* The context keyword of add_done_callback: NULL when it is not given.
ContextArgs == {NULL, "ctxA"}

\* PyContext_CopyCurrent ()
PyContext_CopyCurrent == "ctxCurrent"

\* What the finish function can return.  None is a non-NULL object.
Vals == {"None", "v42"}

\* Exception classes the finish function can raise.  ValueError can be
\* called with zero or one argument, UnicodeDecodeError needs five.
Classes == {"ValueError", "UnicodeDecodeError"}

CtorAccepts(cls) == cls # "UnicodeDecodeError"

\* The (exc, value) pairs PyErr_Fetch can hand back: no value, a message
\* that is not yet an instance, or an existing instance E1 of the class.
RaisedValues == {NULL, "bad", "E1"}

\* The outcomes of _wrap_g_callable_info_invoke.
FinisherOutcomes ==
    [kind : {"return"}, val : Vals, cls : {NULL}, value : {NULL}]
    \cup [kind : {"raise"}, val : {NULL}, cls : Classes, value : RaisedValues]

\* Identity of an object allocated by the n-th handler invocation.
NewOid(n) == IF n = 1 THEN "new1" ELSE IF n = 2 THEN "new2" ELSE "newN"

InvalidStateError ==
    [cls |-> "InvalidStateError", arg |-> "Async task is still running!", oid |-> "ise"]

SchedulerError == [cls |-> "RuntimeError", arg |-> "call_soon failed", oid |-> "sched"]

----
\* What an operation hands back to its caller.

Return(v)    == [kind |-> "return", val |-> v, exc |-> NoExc, n |-> 0]
ReturnObj(e) == [kind |-> "return", val |-> NULL, exc |-> e, n |-> 0]
ReturnInt(k) == [kind |-> "return", val |-> NULL, exc |-> NoExc, n |-> k]
Raise(e)     == [kind |-> "raise", val |-> NULL, exc |-> e, n |-> 0]

Call(op, arg, out) ==
    [op |-> op, arg |-> arg, kind |-> out.kind, val |-> out.val, exc |-> out.exc, n |-> out.n]

----
\* Accessors.

\* async_done testing self->result only.
async_done_result_only(r, e) == r # NULL

async_done(r, e) == r # NULL \/ e # NoExc

\* async_result raising a copy of the stored exception instead of the object.
async_result_raises_copy(r, e) ==
    IF r = NULL /\ e = NoExc THEN Raise(InvalidStateError)
    ELSE IF r # NULL THEN Return(r)
    ELSE Raise([e EXCEPT !.oid = "copy"])

async_result(r, e) ==
    IF r = NULL /\ e = NoExc THEN Raise(InvalidStateError)
    ELSE IF r # NULL THEN Return(r)
    ELSE Raise(e)

\* async_exception without the test for a pending future.
async_exception_no_pending_test(r, e) ==
    IF e # NoExc THEN ReturnObj(e) ELSE Return("None")

async_exception(r, e) ==
    IF r = NULL /\ e = NoExc THEN Raise(InvalidStateError)
    ELSE IF e # NoExc THEN ReturnObj(e)
    ELSE Return("None")

\* async_iternext stopping after one item while the future is pending.
async_iternext_stops_pending(r, e) ==
    IF e # NoExc THEN Raise(e)
    ELSE Raise([cls |-> "StopIteration", arg |-> IF r = NULL THEN "None" ELSE r, oid |-> "stop"])

async_iternext(r, e) ==
    IF r = NULL /\ e = NoExc THEN Return("self")
    ELSE IF e # NoExc THEN Raise(e)
    ELSE Raise([cls |-> "StopIteration", arg |-> r, oid |-> "stop"])

\* pygi_async_new: res is returned whatever tp_init returned.
pygi_async_new(failed) == "self"

\* tp_alloc zeroes the fields.
InitFields ==
    /\ result = NULL
    /\ exception = NoExc
    /\ callbacks = <<>>
    /\ blocking = FALSE
    /\ soonLog = <<>>
    /\ queue = <<>>
    /\ invoked = <<>>
    /\ released = <<>>
    /\ nextId = 1
    /\ finishCalls = 0
    /\ finisherCalls = 0
    /\ completions = 0
    /\ handlerRefs = 1
    /\ initialized = TRUE
    /\ errPending = FALSE
    /\ reported = 0
    /\ aborted = FALSE
    /\ gilSteps = <<>>
    /\ lastCall = Call("new", NULL, Return(pygi_async_new(initFailed)))

\* The object pygi_async_new returns when async_init succeeded.
Init ==
    /\ initFailed = FALSE
    /\ InitFields

\* The object pygi_async_new returns, whether or not async_init succeeded.
InitNew ==
    /\ initFailed \in BOOLEAN
    /\ InitFields

\* The interpreter is running and the process is alive: Python code can call
\* the object's methods.
Alive == initialized /\ ~aborted

Done ==
    /\ Alive
    /\ lastCall' = Call("done", NULL, Return(IF async_done(result, exception) THEN "True" ELSE "False"))
    /\ UNCHANGED <<result, exception, callbacks, blocking, soonLog, queue,
                   invoked, released, nextId, finishCalls, finisherCalls, completions,
                   handlerRefs, initialized, errPending, reported, aborted>>
    /\ UNCHANGED <<initFailed, gilSteps>>

Result ==
    /\ Alive
    /\ lastCall' = Call("result", NULL, async_result(result, exception))
    /\ UNCHANGED <<result, exception, callbacks, blocking, soonLog, queue,
                   invoked, released, nextId, finishCalls, finisherCalls, completions,
                   handlerRefs, initialized, errPending, reported, aborted>>
    /\ UNCHANGED <<initFailed, gilSteps>>

Exception ==
    /\ Alive
    /\ lastCall' = Call("exception", NULL, async_exception(result, exception))
    /\ UNCHANGED <<result, exception, callbacks, blocking, soonLog, queue,
                   invoked, released, nextId, finishCalls, finisherCalls, completions,
                   handlerRefs, initialized, errPending, reported, aborted>>
    /\ UNCHANGED <<initFailed, gilSteps>>

\* async_cancel rejecting a pending future itself, as a future with a
\* cancelled state of its own would.
Cancel_rejects_future ==
    /\ Alive
    /\ exception' = IF result = NULL /\ exception = NoExc
                    THEN [cls |-> "CancelledError", arg |-> "NOARG", oid |-> "cancel"]
                    ELSE exception
    /\ lastCall' = Call("cancel", NULL, Return("None"))
    /\ UNCHANGED <<result, callbacks, blocking, soonLog, queue, invoked,
                   released, nextId, finishCalls, finisherCalls, completions,
                   handlerRefs, initialized, errPending, reported, aborted,
                   initFailed, gilSteps>>

\* async_cancel: the call goes to self->cancellable, an object outside the
\* future; no field of the future is written.
Cancel ==
    /\ Alive
    /\ lastCall' = Call("cancel", NULL, Return("None"))
    /\ UNCHANGED <<result, exception, callbacks, blocking, soonLog, queue, invoked,
                   released, nextId, finishCalls, finisherCalls, completions,
                   handlerRefs, initialized, errPending, reported, aborted>>
    /\ UNCHANGED <<initFailed, gilSteps>>

----
\* Scheduling on the loop.

\* The call call_soon () makes: loop.call_soon (cb->func, self), with the
\* kwargs dictionary cleared to NULL before PyObject_Call, so that no context
\* keyword is passed.  ok is whether the call returned a handle.
call_soon(cb, ok) ==
    [func |-> cb.func, arg |-> "self", context |-> NULL, id |-> cb.id, ok |-> ok]

\* PyObject_GetAttrString (self->loop, "call_soon") when async_init failed and
\* self->loop is NULL: the NULL object is dereferenced and the process dies.
call_soon_crashes(failed) == failed

\* loop.call_soon: a call that succeeds puts the handle on the ready queue;
\* the callback itself runs on a later turn of the loop (LoopRunOne).
LoopCallSoon(q, at) == IF at.ok THEN Append(q, at.id) ELSE q

\* Callbacks the object runs itself, in its own frame: none.
InlineCalls(inv, at) == inv

\* PyErr_PrintEx leaving the error indicator set.
PyErr_PrintEx_keeps_error(err) == err

\* PyErr_PrintEx (FALSE): prints the pending error and clears the indicator.
PyErr_PrintEx(err) == FALSE

\* The entry add_done_callback builds from its arguments.
NewCallback(fn, ctxArg, id) ==
    [func |-> fn,
     context |-> IF ctxArg = NULL THEN PyContext_CopyCurrent ELSE ctxArg,
     id |-> id]

\* The already-done test of add_done_callback looking at self->result only.
AddSchedulesNow_result_only(r, e) == r # NULL

\* Whether add_done_callback takes the already-done branch.
AddSchedulesNow(r, e) == r # NULL \/ e # NoExc

\* async_add_done_callback, for a caller that registers at most max callbacks.
AddDoneCallback(max) ==
    /\ Alive
    /\ nextId <= max
    /\ \E fn \in Funcs, ctxArg \in ContextArgs, ok \in BOOLEAN :
         LET cb == NewCallback(fn, ctxArg, nextId)
             at == call_soon(cb, ok)
         IN IF AddSchedulesNow(result, exception)
            THEN IF call_soon_crashes(initFailed)
                 THEN /\ aborted' = TRUE
                      /\ released' = Append(released, 0)
                      /\ lastCall' = Call("add_done_callback", fn, Return("abort"))
                      /\ UNCHANGED <<soonLog, queue, invoked, callbacks>>
                 ELSE /\ soonLog' = Append(soonLog, at)
                      /\ queue' = LoopCallSoon(queue, at)
                      /\ invoked' = InlineCalls(invoked, at)
                      /\ released' = Append(released, 1)
                      /\ callbacks' = callbacks
                      /\ lastCall' = Call("add_done_callback", fn,
                                          IF at.ok THEN Return("None")
                                          ELSE Raise(SchedulerError))
                      /\ UNCHANGED aborted
            ELSE /\ callbacks' = Append(callbacks, cb)
                 /\ released' = Append(released, 0)
                 /\ lastCall' = Call("add_done_callback", fn, Return("None"))
                 /\ UNCHANGED <<soonLog, queue, invoked, aborted>>
    /\ nextId' = nextId + 1
    /\ UNCHANGED <<result, exception, blocking, finishCalls, finisherCalls,
                   completions, handlerRefs, initialized, errPending, reported>>
    /\ UNCHANGED <<initFailed, gilSteps>>

async_add_done_callback == AddDoneCallback(MaxRegs)

\* The removal loop stepping to the next index after it removed an entry, so
\* that the entry that moved into the freed slot is kept without a test.
RECURSIVE RemoveFrom_skips_next(_, _, _, _)
RemoveFrom_skips_next(cbs, i, fn, acc) ==
    IF i > Len(cbs) THEN acc
    ELSE IF PyObject_RichCompareBool(cbs[i].func, fn)
         THEN LET dropped == [acc EXCEPT !.removed = @ + 1,
                                         !.released[cbs[i].id] = @ + 1]
              IN IF i + 1 > Len(cbs) THEN dropped
                 ELSE RemoveFrom_skips_next(cbs, i + 2, fn,
                                            [dropped EXCEPT !.kept = Append(@, cbs[i + 1])])
         ELSE RemoveFrom_skips_next(cbs, i + 1, fn,
                                    [acc EXCEPT !.kept = Append(@, cbs[i])])

\* The loop of async_remove_done_callback from index i on: the entries kept
\* and the released counts, with removed the number of entries dropped.
RECURSIVE RemoveFrom(_, _, _, _)
RemoveFrom(cbs, i, fn, acc) ==
    IF i > Len(cbs) THEN acc
    ELSE IF PyObject_RichCompareBool(cbs[i].func, fn)
         THEN RemoveFrom(cbs, i + 1, fn,
                         [acc EXCEPT !.removed = @ + 1,
                                     !.released[cbs[i].id] = @ + 1])
         ELSE RemoveFrom(cbs, i + 1, fn,
                         [acc EXCEPT !.kept = Append(@, cbs[i])])

async_remove_done_callback ==
    /\ Alive
    /\ \E fn \in Funcs :
         LET r == RemoveFrom(callbacks, 1, fn,
                             [kept |-> <<>>, removed |-> 0, released |-> released])
         IN /\ callbacks' = r.kept
            /\ released' = r.released
            /\ lastCall' = Call("remove_done_callback", fn, ReturnInt(r.removed))
    /\ UNCHANGED <<result, exception, blocking, soonLog, queue, invoked,
                   nextId, finishCalls, finisherCalls, completions, handlerRefs,
                   initialized, errPending, reported, aborted>>
    /\ UNCHANGED <<initFailed, gilSteps>>

----
\* The await protocol.

\* async_await setting the flag whatever the state of the future.
AwaitBlocking_always(r, e, b) == TRUE

\* Lines 270-271: the flag after async_await.
AwaitBlocking(r, e, b) == IF r = NULL /\ e = NoExc THEN TRUE ELSE b

async_await ==
    /\ Alive
    /\ blocking' = AwaitBlocking(result, exception, blocking)
    /\ lastCall' = Call("await", NULL, Return("self"))
    /\ UNCHANGED <<result, exception, callbacks, soonLog, queue, invoked,
                   released, nextId, finishCalls, finisherCalls, completions,
                   handlerRefs, initialized, errPending, reported, aborted>>
    /\ UNCHANGED <<initFailed, gilSteps>>

IterNext ==
    /\ Alive
    /\ lastCall' = Call("iternext", NULL, async_iternext(result, exception))
    /\ UNCHANGED <<result, exception, callbacks, blocking, soonLog, queue,
                   invoked, released, nextId, finishCalls, finisherCalls, completions,
                   handlerRefs, initialized, errPending, reported, aborted>>
    /\ UNCHANGED <<initFailed, gilSteps>>

----
\* The completion handler.

\* PyObject_CallFunction (exc, "") / (exc, "O", value): a new instance of the
\* class built from the fetched value, or NULL when the class cannot be
\* called that way.
PyObject_CallFunction(cls, value, n) ==
    IF CtorAccepts(cls)
    THEN [cls |-> cls, arg |-> IF value = NULL THEN "NOARG" ELSE value, oid |-> NewOid(n)]
    ELSE NoExc

\* PyObject_CallFunction (PyExc_TypeError, "Invalid exception from _finish
\* function call!"): the message is in the place of the argument format, so
\* the call reads arguments that were not passed and stops at the format
\* character 'v'.  It never produces an instance.
TypeErrorFallback == NoExc

\* Lines 349-374: the fields after the finish function's outcome is stored by
\* the n-th invocation.  crash is the failure of g_assert (exc_val).
StoreOutcome(r, e, out, n) ==
    IF out.kind = "raise"
    THEN LET first == PyObject_CallFunction(out.cls, out.value, n)
             exc_val == IF first = NoExc THEN TypeErrorFallback ELSE first
         IN [result |-> r, exception |-> exc_val, crash |-> exc_val = NoExc]
    ELSE [result |-> out.val, exception |-> e, crash |-> FALSE]

\* The drain walking the array from its end to its start.
RECURSIVE DrainFrom_backwards(_, _, _, _)
DrainFrom_backwards(cbs, i, oks, acc) ==
    IF i > Len(cbs) THEN acc
    ELSE LET k == Len(cbs) + 1 - i
             cb == cbs[k]
             at == call_soon(cb, oks[k])
             tried == IF ~acc.err
                      THEN [acc EXCEPT !.log = Append(@, at),
                                       !.queue = LoopCallSoon(@, at),
                                       !.invoked = InlineCalls(@, at),
                                       !.reported = IF at.ok THEN @ ELSE @ + 1,
                                       !.err = IF at.ok THEN FALSE ELSE PyErr_PrintEx(TRUE)]
                      ELSE acc
         IN DrainFrom_backwards(cbs, i + 1, oks, [tried EXCEPT !.released[cb.id] = @ + 1])

\* Lines 377-395: the loop over self->callbacks from index i on.  oks[i] is
\* whether call_soon succeeds for entry i if it is attempted.
RECURSIVE DrainFrom(_, _, _, _)
DrainFrom(cbs, i, oks, acc) ==
    IF i > Len(cbs) THEN acc
    ELSE LET cb == cbs[i]
             at == call_soon(cb, oks[i])
             tried == IF ~acc.err
                      THEN [acc EXCEPT !.log = Append(@, at),
                                       !.queue = LoopCallSoon(@, at),
                                       !.invoked = InlineCalls(@, at),
                                       !.reported = IF at.ok THEN @ ELSE @ + 1,
                                       !.err = IF at.ok THEN FALSE ELSE PyErr_PrintEx(TRUE)]
                      ELSE acc
         IN DrainFrom(cbs, i + 1, oks, [tried EXCEPT !.released[cb.id] = @ + 1])

\* The handler going on although the interpreter is finalized.
HandlerAborts_never(initd) == FALSE

\* Lines 330-334: the handler returns at once when the interpreter is no
\* longer initialized.
HandlerAborts(initd) == ~initd

\* The handler returning at shutdown with the GIL still held.
HandlerSteps_keeps_gil_at_shutdown(path) ==
    IF path = "shutdown"
    THEN <<"PyGILState_Ensure", "Py_IsInitialized">>
    ELSE IF path = "void"
    THEN <<"PyGILState_Ensure", "Py_IsInitialized", "finish_func", "store", "drain",
           "g_array_free", "Py_DECREF_self", "PyGILState_Release">>
    ELSE IF path = "g_assert"
    THEN <<"PyGILState_Ensure", "Py_IsInitialized", "finish_func", "g_assert">>
    ELSE <<"PyGILState_Ensure", "Py_IsInitialized", "finish_func", "store", "drain">>

\* The calls and field accesses of pygi_async_finish_cb in the order of the
\* code, for each way through it: the return at shutdown, the run to the end,
\* the death in g_assert and the death in call_soon.
HandlerSteps(path) ==
    IF path = "shutdown"
    THEN <<"PyGILState_Ensure", "Py_IsInitialized", "PyGILState_Release">>
    ELSE IF path = "void"
    THEN <<"PyGILState_Ensure", "Py_IsInitialized", "finish_func", "store", "drain",
           "g_array_free", "Py_DECREF_self", "PyGILState_Release">>
    ELSE IF path = "g_assert"
    THEN <<"PyGILState_Ensure", "Py_IsInitialized", "finish_func", "g_assert">>
    ELSE <<"PyGILState_Ensure", "Py_IsInitialized", "finish_func", "store", "drain">>

\* The instance the finish function raised, when it raised one.
RaisedInstance(out) ==
    IF out.kind = "raise" /\ out.value = "E1"
    THEN [cls |-> out.cls, arg |-> "bad", oid |-> "E1"]
    ELSE NoExc

\* What an invocation of the handler did: arg is how the finish function
\* ended, exc the instance it raised, val how the handler ended.
HandlerCall(out, how) ==
    [op |-> "finish_cb", arg |-> out.kind, kind |-> "return", val |-> how,
     exc |-> RaisedInstance(out), n |-> 0]

pygi_async_finish_cb ==
    /\ ~aborted
    /\ finishCalls < MaxFinish
    /\ finishCalls' = finishCalls + 1
    /\ IF HandlerAborts(initialized)
       THEN /\ lastCall' = Call("finish_cb", NULL, Return("shutdown"))
            /\ gilSteps' = HandlerSteps("shutdown")
            /\ UNCHANGED <<result, exception, callbacks, soonLog, queue, invoked, released,
                           finisherCalls, completions, handlerRefs, errPending, reported,
                           aborted>>
       ELSE \E out \in FinisherOutcomes, oks \in [1..Len(callbacks) -> BOOLEAN] :
              LET st == StoreOutcome(result, exception, out, finishCalls + 1)
                  d == DrainFrom(callbacks, 1, oks,
                                 [err |-> FALSE, log |-> soonLog, queue |-> queue,
                                  invoked |-> invoked, reported |-> reported,
                                  released |-> released])
                  segv == call_soon_crashes(initFailed) /\ callbacks # <<>>
              IN /\ finisherCalls' = finisherCalls + 1
                 /\ IF st.crash \/ segv
                    THEN /\ aborted' = TRUE
                         /\ lastCall' = HandlerCall(out, "abort")
                         /\ gilSteps' = HandlerSteps(IF st.crash THEN "g_assert"
                                                     ELSE "call_soon")
                         /\ UNCHANGED <<result, exception, callbacks, soonLog, queue, invoked,
                                        released, completions, handlerRefs, errPending,
                                        reported>>
                    ELSE /\ result' = st.result
                         /\ exception' = st.exception
                         /\ soonLog' = d.log
                         /\ queue' = d.queue
                         /\ invoked' = d.invoked
                         /\ reported' = d.reported
                         /\ released' = d.released
                         /\ errPending' = d.err
                         /\ callbacks' = <<>>
                         /\ handlerRefs' = handlerRefs - 1
                         /\ completions' = completions + 1
                         /\ lastCall' = HandlerCall(out, "void")
                         /\ gilSteps' = HandlerSteps("void")
                         /\ UNCHANGED aborted
    /\ UNCHANGED <<blocking, nextId, initialized, initFailed>>

----
\* The environment.

\* One turn of the loop: the oldest ready handle runs its callback.
LoopRunOne ==
    /\ Alive
    /\ queue # <<>>
    /\ invoked' = Append(invoked, Head(queue))
    /\ queue' = Tail(queue)
    /\ lastCall' = Call("loop_run", NULL, Return("None"))
    /\ UNCHANGED <<result, exception, callbacks, blocking, soonLog,
                   released, nextId, finishCalls, finisherCalls, completions,
                   handlerRefs, initialized, errPending, reported, aborted>>
    /\ UNCHANGED <<initFailed, gilSteps>>

\* Py_Finalize: from here on Py_IsInitialized () is false.
Finalize ==
    /\ Alive
    /\ initialized' = FALSE
    /\ lastCall' = Call("finalize", NULL, Return("None"))
    /\ UNCHANGED <<result, exception, callbacks, blocking, soonLog, queue,
                   invoked, released, nextId, finishCalls, finisherCalls, completions,
                   handlerRefs, errPending, reported, aborted>>
    /\ UNCHANGED <<initFailed, gilSteps>>

Next ==
    \/ Done
    \/ Result
    \/ Exception
    \/ Cancel
    \/ async_add_done_callback
    \/ async_remove_done_callback
    \/ async_await
    \/ IterNext
    \/ pygi_async_finish_cb
    \/ LoopRunOne
    \/ Finalize

Spec == Init /\ [][Next]_vars

\* The registry operations and the completion handler alone, with one more
\* registration than Spec explores.
AddDoneCallbackWide == AddDoneCallback(MaxWide)

NextRegistry ==
    \/ AddDoneCallbackWide
    \/ async_remove_done_callback
    \/ pygi_async_finish_cb

SpecRegistry == Init /\ [][NextRegistry]_vars

\* The same operations on the object pygi_async_new hands to its caller.
SpecNew == InitNew /\ [][Next]_vars

----
\* Properties.

Pending  == result = NULL /\ exception = NoExc
Resolved == result # NULL /\ exception = NoExc
Rejected == result = NULL /\ exception # NoExc

\* The fields of the future that an accessor could write.
futureState == <<result, exception, callbacks, blocking>>

\* C1: as long as the completion handler has been invoked at most once,
\* done() is false exactly until the handler has stored its outcome and true
\* from then on, result and exception are never both set, and a terminal
\* future keeps its outcome.
C1_DoneIffOutcomeStored ==
    /\ [](finishCalls <= 1 =>
            /\ async_done(result, exception) <=> (completions = 1)
            /\ lastCall.op = "done" =>
                  lastCall.val = (IF completions = 1 THEN "True" ELSE "False")
            /\ ~(result # NULL /\ exception # NoExc))
    /\ [][(finishCalls' <= 1 /\ async_done(result, exception)) =>
            (result' = result /\ exception' = exception)]_vars

C1_Witness ==
    /\ finishCalls = 1
    /\ completions = 1
    /\ Rejected
    /\ lastCall.op = "done"
    /\ lastCall.val = "True"

\* C2: a call of result() or exception() on a pending future raises
\* InvalidStateError and leaves result, exception, the registry and the
\* blocking flag as they were.
C2_PendingAccessorsRaise ==
    [][(Pending /\ lastCall'.op \in {"result", "exception"}) =>
          /\ lastCall'.kind = "raise"
          /\ lastCall'.exc = InvalidStateError
          /\ futureState' = futureState]_vars

C2_Witness ==
    /\ Pending
    /\ callbacks # <<>>
    /\ blocking
    /\ lastCall.op = "exception"
    /\ lastCall.kind = "raise"
    /\ lastCall.exc = InvalidStateError

\* C3: on a resolved future result() returns the stored value and exception()
\* returns None; on a rejected future result() raises the stored exception
\* object and exception() returns that object; neither call writes the future.
C3_TerminalAccessors ==
    /\ []((Resolved /\ lastCall.op = "result") =>
             (lastCall.kind = "return" /\ lastCall.val = result))
    /\ []((Resolved /\ lastCall.op = "exception") =>
             (lastCall.kind = "return" /\ lastCall.val = "None" /\ lastCall.exc = NoExc))
    /\ []((Rejected /\ lastCall.op = "result") =>
             (lastCall.kind = "raise" /\ lastCall.exc = exception))
    /\ []((Rejected /\ lastCall.op = "exception") =>
             (lastCall.kind = "return" /\ lastCall.exc = exception))
    /\ [][lastCall'.op \in {"result", "exception"} => futureState' = futureState]_vars

C3_Witness ==
    /\ Rejected
    /\ exception.oid = "new1"
    /\ lastCall.op = "result"
    /\ lastCall.kind = "raise"
    /\ lastCall.exc = exception

\* The calls to loop.call_soon made by the step.
NewSoon == SubSeq(soonLog', Len(soonLog) + 1, Len(soonLog'))

\* The step is an invocation of the completion handler that ran to its end.
HandlerCompleted == completions' = completions + 1

\* C4: when the handler completes and every call_soon of its drain succeeds,
\* the drain made exactly one call_soon per registry entry, in registry order,
\* and the registry is empty afterwards; no registration is passed to
\* call_soon twice, none while the future is pending, and none that is still
\* in the registry.
C4_PendingCallbacksScheduledInOrder ==
    /\ [][(HandlerCompleted /\ \A k \in DOMAIN NewSoon : NewSoon[k].ok) =>
            /\ Len(NewSoon) = Len(callbacks)
            /\ \A k \in DOMAIN callbacks :
                  /\ NewSoon[k].id = callbacks[k].id
                  /\ NewSoon[k].func = callbacks[k].func
            /\ queue' = queue \o [k \in DOMAIN callbacks |-> callbacks[k].id]
            /\ callbacks' = <<>>
            /\ async_done(result', exception')]_vars
    /\ [](\A i, j \in DOMAIN soonLog : i # j => soonLog[i].id # soonLog[j].id)
    /\ [](soonLog # <<>> => async_done(result, exception))
    /\ [](\A k \in DOMAIN callbacks, i \in DOMAIN soonLog : soonLog[i].id # callbacks[k].id)

C4_Witness ==
    /\ lastCall.op = "finish_cb"
    /\ completions = 1
    /\ Len(soonLog) = 2
    /\ soonLog[1].id = 1 /\ soonLog[1].ok /\ soonLog[1].func = "g"
    /\ soonLog[2].id = 2 /\ soonLog[2].ok /\ soonLog[2].func = "f"
    /\ queue = <<1, 2>>
    /\ callbacks = <<>>

\* C5: add_done_callback on a terminal future makes exactly one call_soon,
\* for the callback it was given, runs no callback and leaves the registry
\* alone; the completion handler runs no callback either: a callback runs
\* only when the loop takes it from its ready queue.
C5_DoneCallbackOnlyScheduled ==
    /\ [][(lastCall'.op = "add_done_callback" /\ async_done(result, exception)) =>
            /\ Len(NewSoon) = 1
            /\ NewSoon[1].func = lastCall'.arg
            /\ NewSoon[1].id = nextId
            /\ invoked' = invoked
            /\ callbacks' = callbacks]_vars
    /\ [][lastCall'.op = "finish_cb" => invoked' = invoked]_vars
    /\ [][invoked' # invoked =>
            /\ lastCall'.op = "loop_run"
            /\ queue # <<>>
            /\ invoked' = Append(invoked, Head(queue))]_vars

C5_Witness ==
    /\ Rejected
    /\ lastCall.op = "add_done_callback"
    /\ lastCall.kind = "return"
    /\ soonLog # <<>>
    /\ soonLog[Len(soonLog)].id = nextId - 1
    /\ queue # <<>>
    /\ queue[Len(queue)] = nextId - 1
    /\ \A k \in DOMAIN invoked : invoked[k] # nextId - 1
    /\ callbacks = <<>>

\* The registry entries whose callback does not compare equal to fn.
NotMatching(cbs, fn) ==
    SelectSeq(cbs, LAMBDA cb : ~PyObject_RichCompareBool(cb.func, fn))

NewFailures == Cardinality({k \in DOMAIN NewSoon : ~NewSoon[k].ok})

\* C7: in one run of the handler no call_soon is made after a call_soon that
\* failed: a failed call is the last call of its drain.
C7_NoSchedulingAfterFailure ==
    [][HandlerCompleted =>
          \A k \in DOMAIN NewSoon : ~NewSoon[k].ok => k = Len(NewSoon)]_vars

\* C8: when a call_soon of the drain fails, the failure is printed, the handler
\* returns with the error indicator clear, the outcome it stored stands, every
\* entry of the registry has been released once and the registry is empty.
C8_SchedulingFailureOnlyReported ==
    [][(HandlerCompleted /\ NewFailures > 0) =>
          /\ reported' = reported + NewFailures
          /\ errPending' = FALSE
          /\ aborted' = FALSE
          /\ lastCall'.val = "void"
          /\ lastCall'.arg = "return" => result' # NULL
          /\ lastCall'.arg = "raise" => exception' # NoExc
          /\ async_done(result', exception')
          /\ \A k \in DOMAIN callbacks : released'[callbacks[k].id] = 1
          /\ callbacks' = <<>>]_vars

\* The first of two registered callbacks could not be scheduled.
C8_Witness ==
    /\ lastCall.op = "finish_cb"
    /\ completions = 1
    /\ Len(soonLog) = 2
    /\ ~soonLog[1].ok
    /\ reported = 1
    /\ ~errPending
    /\ callbacks = <<>>
    /\ released = <<1, 1>>
    /\ Resolved

\* C9: an invocation of the handler while the interpreter is initialized calls
\* the finish function once, returns, and leaves the future resolved if the
\* finish function returned and rejected with an exception object if it raised.
C9_HandlerLeavesFutureTerminal ==
    [][(finishCalls' = finishCalls + 1 /\ initialized) =>
          /\ finisherCalls' = finisherCalls + 1
          /\ aborted' = FALSE
          /\ lastCall'.val = "void"
          /\ lastCall'.arg = "return" => result' # NULL
          /\ lastCall'.arg = "raise" => exception' # NoExc]_vars

C11_CancelWritesNothing ==
    /\ [][lastCall'.op = "cancel" =>
            /\ futureState' = futureState
            /\ soonLog' = soonLog
            /\ lastCall'.kind = "return"]_vars
    /\ [][(Pending /\ ~Pending') => lastCall'.op = "finish_cb"]_vars

C11_Witness ==
    /\ Pending
    /\ callbacks # <<>>
    /\ blocking
    /\ finishCalls = 0
    /\ lastCall.op = "cancel"

\* C12: every call to loop.call_soon carries the context captured for the
\* callback: the context of the registry entry it is made for, and never no
\* context at all.
C12_ContextPassedToCallSoon ==
    [][\A k \in DOMAIN NewSoon :
          /\ NewSoon[k].context # NULL
          /\ \A c \in DOMAIN callbacks :
                callbacks[c].id = NewSoon[k].id =>
                   NewSoon[k].context = callbacks[c].context]_vars

\* C13: an invocation of the handler on a terminal future leaves result and
\* exception as they were, and never leaves both set.
C13_SecondCompletionKeepsOutcome ==
    [][(async_done(result, exception) /\ finishCalls' = finishCalls + 1) =>
          /\ result' = result
          /\ exception' = exception
          /\ ~(result' # NULL /\ exception' # NoExc)]_vars

\* C14: when the finish function raised an instance, the handler stores that
\* very object as the exception of the future.
C14_RaisedInstanceStoredVerbatim ==
    [][(HandlerCompleted /\ lastCall'.arg = "raise" /\ lastCall'.exc # NoExc) =>
          exception' = lastCall'.exc]_vars

C17_ShutdownAbort ==
    [][(finishCalls' = finishCalls + 1 /\ ~initialized) =>
          /\ finisherCalls' = finisherCalls
          /\ completions' = completions
          /\ soonLog' = soonLog
          /\ queue' = queue
          /\ futureState' = futureState
          /\ released' = released
          /\ handlerRefs' = handlerRefs
          /\ aborted' = aborted
          /\ gilSteps' = <<"PyGILState_Ensure", "Py_IsInitialized", "PyGILState_Release">>]_vars

C17_Witness ==
    /\ ~initialized
    /\ finishCalls = 1
    /\ lastCall.op = "finish_cb"
    /\ lastCall.val = "shutdown"
    /\ Pending
    /\ Len(callbacks) = 2
    /\ handlerRefs = 1
    /\ finisherCalls = 0

\* C18: the registry is empty whenever the future is terminal.
C18_RegistryEmptyWhenDone ==
    async_done(result, exception) => callbacks = <<>>

\* Two callbacks were drained, then remove_done_callback found nothing.
C18_Witness ==
    /\ Rejected
    /\ callbacks = <<>>
    /\ Len(soonLog) = 2
    /\ soonLog[1].id = 1
    /\ soonLog[2].id = 2
    /\ lastCall.op = "remove_done_callback"
    /\ lastCall.n = 0

\* C19: async_await sets the blocking flag exactly when the future is
\* pending, leaves it as it was otherwise, returns the future itself and
\* writes neither the outcome nor the registry.
C19_AwaitSetsBlockingWhilePending ==
    [][lastCall'.op = "await" =>
          /\ blocking' = (Pending \/ blocking)
          /\ lastCall'.kind = "return"
          /\ lastCall'.val = "self"
          /\ result' = result
          /\ exception' = exception
          /\ callbacks' = callbacks
          /\ soonLog' = soonLog]_vars

\* A future that was never awaited while pending is awaited when terminal.
C19_Witness ==
    /\ async_done(result, exception)
    /\ ~blocking
    /\ lastCall.op = "await"
    /\ lastCall.val = "self"

\* C20: when async_init failed, pygi_async_new returned NULL and no operation
\* runs on the object.
C20_NewReturnsNullOnError ==
    initFailed => (lastCall.op = "new" /\ lastCall.val = NULL)
====
